---- MODULE Spec2Model ----
(***************************************************************************)
(* RedisStore (src/redisstore.go): a session store that maps Find, Commit, *)
(* Delete and All onto requests to a shared Redis backend.                 *)
(*                                                                         *)
(* The backend is the Redis keyspace `db` with a millisecond clock.  Each  *)
(* caller is a process whose position `pc` is the backend request its      *)
(* current call issues next; one step of a call is one request processed   *)
(* by the backend, so requests of different callers interleave exactly as  *)
(* the server may process them.                                            *)
(*                                                                         *)
(* Strings are sequences of one-character strings.  Time is counted in     *)
(* ticks of the nanosecond clock, scaled so that NsPerMs ticks make one    *)
(* millisecond of the backend clock; the int64 of time.Time.UnixNano is    *)
(* scaled to Int64Mod values, and the zero time.Time lies outside it as    *)
(* year 1 lies outside the int64 nanosecond range.                         *)
(***************************************************************************)
EXTENDS Integers, Sequences, FiniteSets, TLC

VARIABLES
    prefix,   \* prefix[p]: the prefix field of the RedisStore caller p uses
    now,      \* the clock, in nanosecond ticks
    db,       \* the Redis keyspace: key -> [val, exp, by]; by is history, the
              \* writer of val
    pc,       \* pc[p]: where caller p is in its current call
    arg,      \* arg[p]: the parameters of p's Commit in progress
    scan,     \* scan[p]: the locals of p's All in progress
    ret,      \* what the call that returned in the last step returned
    use,      \* what the callers pass (tokens, data, expiries), how far the clock
              \* runs (ticks) and which history is kept: `last` (track), the
              \* Commit that wrote a value (origin)
    last,     \* history: key -> the Commit or Delete that last completed on it
    quiet     \* history: quiet[p] iff no other call wrote p's keys during p's call

vars == <<prefix, now, db, pc, arg, scan, ret, use, last, quiet>>

----------------------------------------------------------------------------
(* Bounds of the model. *)

MaxNow == 4

MaxExpiry == 4

Procs == {1, 2}

Tokens == {<<"t">>, <<"b", "t">>}

Data == {"d1", "d2"}

----------------------------------------------------------------------------
(* Values of the program. *)

\* "scs:session:", the prefix New passes to NewWithPrefix
DefaultPrefix == <<"s">>

\* prefixes a caller of NewWithPrefix may pass
Prefixes == {DefaultPrefix, <<"s", "b">>, <<"b">>}

\* int64(time.Millisecond) / int64(time.Nanosecond), scaled
NsPerMs == 2

\* 2^64, the range of int64, scaled
Int64Mod == 256

\* time.Time{}: January 1, year 1, in nanosecond ticks before the epoch.
\* As the real one (-62135596800e9 = -3.368 * 2^64) it is -3.368 * Int64Mod.
ZeroTime == -862

\* expiration 0 of Set: the key carries no time to live (Redis reports -1)
NoExpire == -1

NilBytes == "nil"

NoErr == "nil"

RedisNil == "redis.Nil"

BackendErr == "backend error"

\* the expiry values callers pass to Commit: the zero time, a time within the
\* first millisecond, and times in later milliseconds
Expiries == {ZeroTime, 1, 2, MaxExpiry}

EmptyMap == [t \in {} |-> NilBytes]

----------------------------------------------------------------------------
(* Go arithmetic and strings. *)

\* Go's integer division truncates toward zero
TruncDiv(a, b) == IF a >= 0 THEN a \div b ELSE -((-a) \div b)

\* two's complement wrap-around of an int64 (scaled to Int64Mod)
WrapInt64(x) ==
    LET m == x % Int64Mod
    IN  IF m >= Int64Mod \div 2 THEN m - Int64Mod ELSE m

\* time.Time.UnixNano
UnixNano(t) == WrapInt64(t)

makeMillisecondTimestampRoundUp(t) == TruncDiv(UnixNano(t) + (NsPerMs - 1), NsPerMs)

\* the millisecond timestamp of a time.Time: UnixNano over the nanoseconds of a
\* millisecond, which is also what the client's PExpireAt sends for its time
makeMillisecondTimestamp(t) == TruncDiv(UnixNano(t), NsPerMs)

\* s[n:]
SliceFrom(s, n) == SubSeq(s, n + 1, Len(s))

HasPrefix(s, pfx) == Len(s) >= Len(pfx) /\ SubSeq(s, 1, Len(pfx)) = pfx

\* r.prefix + token
Key(pfx, token) == pfx \o token

KeyNoPrefix(pfx, token) == token

\* the key of Find's Get
GetKey(pfx, token) == Key(pfx, token)

\* the key of Commit's Set
SetKey(pfx, token) == Key(pfx, token)

\* the key of Commit's PExpireAt
PExpireAtKey(pfx, token) == Key(pfx, token)

\* the key of Delete's Del
DelKey(pfx, token) == Key(pfx, token)

----------------------------------------------------------------------------
(* The backend: Redis commands on the keyspace. *)

\* the backend's clock: milliseconds
MsClock(t) == t \div NsPerMs

\* GET key
RedisGet(d, key) ==
    IF key \in DOMAIN d
    THEN [val |-> d[key].val, err |-> NoErr]
    ELSE [val |-> NilBytes, err |-> RedisNil]

\* SET key val NX: a key that exists is left as it is
RedisSetNX(d, key, val, by) ==
    IF key \in DOMAIN d THEN d
    ELSE [k \in DOMAIN d \cup {key} |->
            IF k = key THEN [val |-> val, exp |-> NoExpire, by |-> by] ELSE d[k]]

\* SET key val (expiration 0): replaces the value and discards the time to live
RedisSet(d, key, val, by) ==
    [k \in DOMAIN d \cup {key} |->
        IF k = key THEN [val |-> val, exp |-> NoExpire, by |-> by] ELSE d[k]]

\* DEL key
RedisDel(d, key) == [k \in DOMAIN d \ {key} |-> d[k]]

\* PEXPIREAT key when: a key whose time is not in the future is deleted
RedisPExpireAt(d, key, when, ms) ==
    IF key \notin DOMAIN d THEN d
    ELSE IF when <= ms THEN RedisDel(d, key)
    ELSE [d EXCEPT ![key].exp = when]

\* KEYS pfx*
RedisKeys(d, pfx) == {k \in DOMAIN d : HasPrefix(k, pfx)}

\* the backend drops the keys whose time to live has passed
RedisExpire(d, ms) ==
    [k \in {x \in DOMAIN d : d[x].exp = NoExpire \/ ms <= d[x].exp} |-> d[k]]

----------------------------------------------------------------------------
(* Values of the state. *)

NoOld == [present |-> FALSE, val |-> NilBytes, exp |-> NoExpire]

NoArg == [token |-> <<>>, b |-> NilBytes, expiry |-> 0, old |-> NoOld]

NoScan == [keys |-> {}, rest |-> {}, sessions |-> EmptyMap, owners |-> {}, at |-> 0,
           missed |-> {}, read |-> EmptyMap]

\* op, token and the results b, exists, err, hasmap (a non-nil map), sessions;
\* the rest is history of the call: its caller and parameters, the record it
\* replaced, the call that last completed on its key, the keys Keys replied,
\* the backend clock at Keys, the stores whose records it returned, whether
\* it ran undisturbed, whether a request of it failed, and of All the entries
\* it had fetched (got), the keys its Finds did not find (missed) and the
\* value each enumerated key held at its Find (read)
NoRet == [p |-> 0, op |-> "none", token |-> <<>>, b |-> NilBytes, exists |-> FALSE,
          err |-> NoErr, hasmap |-> FALSE, sessions |-> EmptyMap,
          expiry |-> 0, old |-> NoOld, prev |-> "none", keys |-> {}, at |-> 0,
          owners |-> {}, quiet |-> TRUE, failed |-> FALSE, got |-> EmptyMap,
          missed |-> {}, read |-> EmptyMap]

Ret(p, op, token) == [NoRet EXCEPT !.p = p, !.op = op, !.token = token]

\* history: another client of the connection, or a Commit that returned an
\* error, wrote the value
ByOther(store) == [store |-> store, commit |-> FALSE, expiry |-> 0]

\* history: a Commit of the store `store` with the expiry `expiry` wrote the
\* value (kept where use.origin says so)
ByCommit(store, expiry) ==
    IF use.origin
    THEN [store |-> store, commit |-> TRUE, expiry |-> expiry]
    ELSE ByOther(store)

\* history: the Commit on `key` returns an error
Taint(d, key) ==
    IF key \in DOMAIN d THEN [d EXCEPT ![key].by = ByOther(@.store)] ELSE d

\* the record a call on `key` finds there (history)
OldOf(d, key) ==
    IF key \in DOMAIN d
    THEN [present |-> TRUE, val |-> d[key].val, exp |-> d[key].exp]
    ELSE NoOld

\* the keys p's call in progress depends on
Concerns(p, key) ==
    \/ pc[p] = "pexpireat" /\ key = PExpireAtKey(prefix[p], arg[p].token)
    \/ pc[p] = "range" /\ HasPrefix(key, prefix[p])

\* history: `actor` writes `key`
Disturb(actor, key) ==
    [q \in Procs |-> IF q # actor /\ Concerns(q, key) THEN FALSE ELSE quiet[q]]

Forget(key) ==
    IF use.track THEN [k \in DOMAIN last \ {key} |-> last[k]] ELSE last

\* live: the call found (Delete) or left (Commit) a record at the key;
\* past: the expiry was not after the clock when the call returned
Remember(key, op, b, expiry, live) ==
    IF use.track
    THEN [k \in DOMAIN last \cup {key} |->
            IF k = key THEN [op |-> op, b |-> b, expiry |-> expiry, live |-> live,
                             past |-> expiry <= now]
            ELSE last[k]]
    ELSE last

\* the reply of a request that fails (timeout, connection, protocol)
FailedReply == [val |-> NilBytes, n |-> 0, keys |-> {}, err |-> BackendErr]

----------------------------------------------------------------------------
(* New, NewWithPrefix. *)

NewWithPrefix(pfx) == pfx

New == NewWithPrefix(DefaultPrefix)

----------------------------------------------------------------------------
(* Find. *)

FindResultNilIsError(reply) ==
    IF reply.err # NoErr
    THEN [b |-> NilBytes, exists |-> FALSE, err |-> reply.err]
    ELSE [b |-> reply.val, exists |-> TRUE, err |-> NoErr]

FindResultErrIsNotFound(reply) ==
    IF reply.err # NoErr
    THEN [b |-> NilBytes, exists |-> FALSE, err |-> NoErr]
    ELSE [b |-> reply.val, exists |-> TRUE, err |-> NoErr]

\* what Find returns on the reply of Get
FindResult(reply) ==
    IF reply.err = RedisNil
    THEN [b |-> NilBytes, exists |-> FALSE, err |-> NoErr]
    ELSE IF reply.err # NoErr
    THEN [b |-> NilBytes, exists |-> FALSE, err |-> reply.err]
    ELSE [b |-> reply.val, exists |-> TRUE, err |-> NoErr]

FindRet(p, token, res, owners) ==
    [Ret(p, "Find", token) EXCEPT !.b = res.b, !.exists = res.exists,
                                  !.err = res.err, !.owners = owners]

Find(p, token) ==
    /\ pc[p] = "idle"
    /\ LET key == GetKey(prefix[p], token)
           res == FindResult(RedisGet(db, key))
       IN  ret' = FindRet(p, token, res, IF res.exists THEN {db[key].by.store} ELSE {})
    /\ UNCHANGED <<prefix, now, db, pc, arg, scan, use, last, quiet>>

\* the Get request fails
FindErr(p, token) ==
    /\ pc[p] = "idle"
    /\ ret' = [FindRet(p, token, FindResult(FailedReply), {}) EXCEPT !.failed = TRUE]
    /\ UNCHANGED <<prefix, now, db, pc, arg, scan, use, last, quiet>>

----------------------------------------------------------------------------
(* Commit: Set and PExpireAt queued on a pipeline (Pipelined, not            *)
(* TxPipelined: no MULTI/EXEC), which the backend processes as two commands. *)

\* what Commit returns on the reply of the pipeline
CommitResult(reply) == reply.err

CommitRet(p, a, err, q) ==
    [Ret(p, "Commit", a.token) EXCEPT !.b = a.b, !.expiry = a.expiry, !.old = a.old,
                                      !.err = err, !.quiet = q]

\* the backend processes the pipeline's Set
CommitSet(p, token, b, expiry) ==
    /\ pc[p] = "idle"
    /\ LET key == SetKey(prefix[p], token)
       IN  /\ db' = RedisSet(db, key, b, ByCommit(prefix[p], expiry))
           /\ arg' = [arg EXCEPT ![p] = [token |-> token, b |-> b, expiry |-> expiry,
                                         old |-> OldOf(db, key)]]
           /\ last' = Forget(key)
           /\ quiet' = Disturb(p, key)
    /\ pc' = [pc EXCEPT ![p] = "pexpireat"]
    /\ ret' = NoRet
    /\ UNCHANGED <<prefix, now, scan, use>>

\* the backend processes the pipeline's PExpireAt and Exec returns no error
CommitPExpireAt(p) ==
    /\ pc[p] = "pexpireat"
    /\ LET key == PExpireAtKey(prefix[p], arg[p].token)
           d == RedisPExpireAt(db, key, makeMillisecondTimestamp(arg[p].expiry),
                               MsClock(now))
       IN  /\ db' = d
           /\ last' = IF quiet[p]
                      THEN Remember(key, "Commit", arg[p].b, arg[p].expiry,
                                    key \in DOMAIN d)
                      ELSE Forget(key)
           /\ quiet' = [Disturb(p, key) EXCEPT ![p] = TRUE]
    /\ ret' = CommitRet(p, arg[p], CommitResult([err |-> NoErr]), quiet[p])
    /\ pc' = [pc EXCEPT ![p] = "idle"]
    /\ arg' = [arg EXCEPT ![p] = NoArg]
    /\ UNCHANGED <<prefix, now, scan, use>>

\* the pipeline fails before the backend processes any of it
CommitSendErr(p, token, b, expiry) ==
    /\ pc[p] = "idle"
    /\ LET a == [token |-> token, b |-> b, expiry |-> expiry,
                 old |-> OldOf(db, SetKey(prefix[p], token))]
       IN  ret' = [CommitRet(p, a, CommitResult(FailedReply), TRUE)
                      EXCEPT !.failed = TRUE]
    /\ UNCHANGED <<prefix, now, db, pc, arg, scan, use, last, quiet>>

\* the pipeline fails after the backend processed Set: PExpireAt is lost,
\* or is processed and its reply is lost
CommitExecErr(p, applied) ==
    /\ pc[p] = "pexpireat"
    /\ LET key == PExpireAtKey(prefix[p], arg[p].token)
       IN  /\ db' = Taint(IF applied
                          THEN RedisPExpireAt(db, key,
                                              makeMillisecondTimestamp(arg[p].expiry),
                                              MsClock(now))
                          ELSE db, key)
           /\ last' = Forget(key)
           /\ quiet' = [Disturb(p, key) EXCEPT ![p] = TRUE]
    /\ ret' = [CommitRet(p, arg[p], CommitResult(FailedReply), quiet[p])
                  EXCEPT !.failed = TRUE]
    /\ pc' = [pc EXCEPT ![p] = "idle"]
    /\ arg' = [arg EXCEPT ![p] = NoArg]
    /\ UNCHANGED <<prefix, now, scan, use>>

----------------------------------------------------------------------------
(* Delete. *)

\* the reply of DEL key: the number of keys removed
RedisDelReply(d, key) ==
    [val |-> NilBytes, n |-> IF key \in DOMAIN d THEN 1 ELSE 0, err |-> NoErr]

DeleteResultZeroIsError(reply) ==
    IF reply.err = NoErr /\ reply.n = 0 THEN RedisNil ELSE reply.err

\* what Delete returns on the reply of Del: its Err()
DeleteResult(reply) == reply.err

\* the call that last completed on `key` (history)
PrevOf(key) == IF key \in DOMAIN last THEN last[key].op ELSE "none"

DeleteRet(p, token, key, err) ==
    [Ret(p, "Delete", token) EXCEPT !.old = OldOf(db, key), !.prev = PrevOf(key),
                                    !.err = err]

Delete(p, token) ==
    /\ pc[p] = "idle"
    /\ LET key == DelKey(prefix[p], token)
           err == DeleteResult(RedisDelReply(db, key))
       IN  /\ db' = RedisDel(db, key)
           /\ last' = IF err = NoErr
                      THEN Remember(key, "Delete", NilBytes, 0, key \in DOMAIN db)
                      ELSE Forget(key)
           /\ quiet' = Disturb(p, key)
           /\ ret' = DeleteRet(p, token, key, err)
    /\ UNCHANGED <<prefix, now, pc, arg, scan, use>>

\* the Del request fails: before the backend processed it, or on its reply
DeleteErr(p, token, applied) ==
    /\ pc[p] = "idle"
    /\ LET key == DelKey(prefix[p], token)
       IN  /\ db' = IF applied THEN RedisDel(db, key) ELSE db
           /\ last' = IF applied THEN Forget(key) ELSE last
           /\ quiet' = IF applied THEN Disturb(p, key) ELSE quiet
           /\ ret' = [DeleteRet(p, token, key, DeleteResult(FailedReply))
                         EXCEPT !.failed = TRUE]
    /\ UNCHANGED <<prefix, now, pc, arg, scan, use>>

----------------------------------------------------------------------------
(* All: Keys, then one Find for each key of the reply. *)

AllRet(p, err, hasmap, sessions, sc, q) ==
    [Ret(p, "All", <<>>) EXCEPT !.err = err, !.hasmap = hasmap, !.sessions = sessions,
                                !.keys = sc.keys, !.at = sc.at, !.owners = sc.owners,
                                !.quiet = q, !.got = sc.sessions, !.missed = sc.missed,
                                !.read = sc.read]

TokenOfNoStrip(pfx, key) == key

TokenOfOneMore(pfx, key) == SliceFrom(key, Len(pfx) + 1)

\* key[len(r.prefix):]
TokenOf(pfx, key) == SliceFrom(key, Len(pfx))

\* sessions[token] = data
Put(sessions, token, data) ==
    [t \in DOMAIN sessions \cup {token} |-> IF t = token THEN data ELSE sessions[t]]

\* the reply of KEYS r.prefix*
RedisKeysReply(d, pfx) == [keys |-> RedisKeys(d, pfx), err |-> NoErr]

\* All on the reply of Keys: it returns, or ranges over the keys
AllOnKeys(p, reply) ==
    LET sc == [NoScan EXCEPT !.keys = reply.keys, !.rest = reply.keys,
                             !.at = MsClock(now)]
    IN  IF reply.err = RedisNil
        THEN /\ ret' = AllRet(p, NoErr, FALSE, EmptyMap, NoScan, TRUE)
             /\ UNCHANGED <<pc, scan>>
        ELSE IF reply.err # NoErr
        THEN /\ ret' = [AllRet(p, reply.err, FALSE, EmptyMap, NoScan, TRUE)
                          EXCEPT !.failed = (reply.err = BackendErr)]
             /\ UNCHANGED <<pc, scan>>
        ELSE IF reply.keys = {}
        THEN /\ ret' = AllRet(p, NoErr, TRUE, EmptyMap, sc, TRUE)
             /\ UNCHANGED <<pc, scan>>
        ELSE /\ scan' = [scan EXCEPT ![p] = sc]
             /\ pc' = [pc EXCEPT ![p] = "range"]
             /\ ret' = NoRet

\* the backend processes Keys
AllKeys(p) ==
    /\ pc[p] = "idle"
    /\ AllOnKeys(p, RedisKeysReply(db, prefix[p]))
    /\ UNCHANGED <<prefix, now, db, arg, use, last, quiet>>

\* the Keys request fails
AllKeysErr(p) ==
    /\ pc[p] = "idle"
    /\ AllOnKeys(p, FailedReply)
    /\ UNCHANGED <<prefix, now, db, arg, use, last, quiet>>

RestKeep(rest, key) == rest

\* the keys the range loop has still to visit after `key`
Rest(rest, key) == rest \ {key}

AllFindFailedPartial(err, sessions) == [err |-> err, hasmap |-> TRUE, sessions |-> sessions]

\* what All returns when a Find of the range loop returns an error: nil, err
AllFindFailed(err, sessions) == [err |-> err, hasmap |-> FALSE, sessions |-> EmptyMap]

\* history: the value `key` holds when its Find is processed
Seen(sc, key) ==
    [sc EXCEPT !.read = Put(@, key, IF key \in DOMAIN db THEN db[key].val ELSE NilBytes)]

\* one pass of the range loop, on the reply of its Find's Get: All returns on
\* an error, and after the last key
AllPass(p, key, token, reply) ==
    LET res == FindResult(reply)
        failed == reply.err = BackendErr
        sc == IF res.exists
              THEN [Seen(scan[p], key) EXCEPT
                        !.rest = Rest(@, key),
                        !.sessions = Put(@, token, res.b),
                        !.owners = @ \cup {db[GetKey(prefix[p], token)].by.store}]
              ELSE IF res.err = NoErr
              THEN [Seen(scan[p], key) EXCEPT !.rest = Rest(@, key),
                                              !.missed = @ \cup {key}]
              ELSE [scan[p] EXCEPT !.rest = Rest(@, key)]
        returns == res.err # NoErr \/ sc.rest = {}
        onerr == AllFindFailed(res.err, scan[p].sessions)
    IN  /\ ret' = IF res.err = RedisNil
                  THEN AllRet(p, NoErr, FALSE, EmptyMap, scan[p], quiet[p])
                  ELSE IF res.err # NoErr
                  THEN [AllRet(p, onerr.err, onerr.hasmap, onerr.sessions, scan[p],
                               quiet[p]) EXCEPT !.failed = failed]
                  ELSE IF sc.rest = {}
                  THEN AllRet(p, NoErr, TRUE, sc.sessions, sc, quiet[p])
                  ELSE NoRet
        /\ scan' = [scan EXCEPT ![p] = IF returns THEN NoScan ELSE sc]
        /\ pc' = [pc EXCEPT ![p] = IF returns THEN "idle" ELSE "range"]
        /\ quiet' = [quiet EXCEPT ![p] = IF returns THEN TRUE ELSE @]

\* the backend processes the Get of the next key's Find
AllFind(p) ==
    /\ pc[p] = "range"
    /\ \E key \in scan[p].rest :
          LET token == TokenOf(prefix[p], key)
          IN  AllPass(p, key, token, RedisGet(db, GetKey(prefix[p], token)))
    /\ UNCHANGED <<prefix, now, db, arg, use, last>>

\* the Get of the next key's Find fails
AllFindErr(p) ==
    /\ pc[p] = "range"
    /\ \E key \in scan[p].rest :
          AllPass(p, key, TokenOf(prefix[p], key), FailedReply)
    /\ UNCHANGED <<prefix, now, db, arg, use, last>>

----------------------------------------------------------------------------
(* The environment. *)

\* conn.Set(ctx, r.prefix+token, data, NoExpiration): a client of the shared
\* connection writes a key of p's store without an expiry
ConnSet(p, token, data) ==
    /\ pc[p] = "idle"
    /\ LET key == Key(prefix[p], token)
       IN  /\ db' = RedisSet(db, key, data, ByOther(prefix[p]))
           /\ last' = Forget(key)
           /\ quiet' = Disturb(p, key)
    /\ ret' = NoRet
    /\ UNCHANGED <<prefix, now, pc, arg, scan, use>>

\* time passes; the backend expires keys by its own clock
Tick ==
    /\ now < use.ticks
    /\ now' = now + 1
    /\ db' = RedisExpire(db, MsClock(now + 1))
    /\ ret' = NoRet
    /\ UNCHANGED <<prefix, pc, arg, scan, use, last, quiet>>

----------------------------------------------------------------------------
(* Specifications. *)

InitState ==
    /\ now = 0
    /\ db = EmptyMap
    /\ arg = [p \in Procs |-> NoArg]
    /\ scan = [p \in Procs |-> NoScan]
    /\ ret = NoRet
    /\ last = EmptyMap
    /\ quiet = [p \in Procs |-> TRUE]

\* two callers share the store New returns
Init ==
    /\ InitState
    /\ prefix = [p \in Procs |-> New]
    /\ pc = [p \in Procs |-> "idle"]
    /\ use = [tokens |-> {<<"t">>}, data |-> Data, expiries |-> {ZeroTime, 2, MaxExpiry},
              ticks |-> MaxNow, track |-> FALSE, origin |-> TRUE]

\* one caller of the store New returns
InitSeq ==
    /\ InitState
    /\ prefix = [p \in Procs |-> New]
    /\ pc = [p \in Procs |-> IF p = 1 THEN "idle" ELSE "off"]
    /\ use = [tokens |-> Tokens, data |-> Data, expiries |-> Expiries,
              ticks |-> MaxNow, track |-> TRUE, origin |-> FALSE]

\* two callers: one of the store New returns, one of a store NewWithPrefix
\* returns for another prefix
InitPrefixes ==
    /\ InitState
    /\ \E pfx \in Prefixes \ {DefaultPrefix} :
          prefix = [p \in Procs |-> IF p = 1 THEN New ELSE NewWithPrefix(pfx)]
    /\ pc = [p \in Procs |-> "idle"]
    /\ use = [tokens |-> Tokens, data |-> {"d1"}, expiries |-> {MaxExpiry},
              ticks |-> 1, track |-> FALSE, origin |-> FALSE]

\* two callers share the store New returns and work on two tokens
InitAll ==
    /\ InitState
    /\ prefix = [p \in Procs |-> New]
    /\ pc = [p \in Procs |-> "idle"]
    /\ use = [tokens |-> Tokens, data |-> Data, expiries |-> {MaxExpiry},
              ticks |-> 1, track |-> FALSE, origin |-> FALSE]

\* two callers share the store New returns and work on two tokens whose
\* records expire while the clock runs
InitRace ==
    /\ InitState
    /\ prefix = [p \in Procs |-> New]
    /\ pc = [p \in Procs |-> "idle"]
    /\ use = [tokens |-> Tokens, data |-> {"d1"}, expiries |-> {2},
              ticks |-> MaxNow, track |-> FALSE, origin |-> FALSE]

\* two callers share the store New returns and work on two tokens, for the
\* runs in which every call in progress goes on
InitLive ==
    /\ InitState
    /\ prefix = [p \in Procs |-> New]
    /\ pc = [p \in Procs |-> "idle"]
    /\ use = [tokens |-> Tokens, data |-> {"d1"}, expiries |-> {MaxExpiry},
              ticks |-> 1, track |-> FALSE, origin |-> FALSE]

Next ==
    \/ \E p \in Procs, token \in use.tokens : Find(p, token)
    \/ \E p \in Procs, token \in use.tokens : FindErr(p, token)
    \/ \E p \in Procs, token \in use.tokens, b \in use.data, expiry \in use.expiries :
          CommitSet(p, token, b, expiry)
    \/ \E p \in Procs : CommitPExpireAt(p)
    \/ \E p \in Procs, token \in use.tokens, b \in use.data, expiry \in use.expiries :
          CommitSendErr(p, token, b, expiry)
    \/ \E p \in Procs, applied \in BOOLEAN : CommitExecErr(p, applied)
    \/ \E p \in Procs, token \in use.tokens : Delete(p, token)
    \/ \E p \in Procs, token \in use.tokens, applied \in BOOLEAN :
          DeleteErr(p, token, applied)
    \/ \E p \in Procs : AllKeys(p)
    \/ \E p \in Procs : AllKeysErr(p)
    \/ \E p \in Procs : AllFind(p)
    \/ \E p \in Procs : AllFindErr(p)
    \/ \E p \in Procs, token \in use.tokens, data \in use.data : ConnSet(p, token, data)
    \/ Tick

Spec == Init /\ [][Next]_vars

SpecSeq == InitSeq /\ [][Next]_vars

SpecPrefixes == InitPrefixes /\ [][Next]_vars

SpecAll == InitAll /\ [][Next]_vars

SpecRace == InitRace /\ [][Next]_vars

\* the next request of p's call in progress is answered or fails: every
\* request carries context.WithTimeout(back, 5*time.Second), so a request the
\* backend does not answer fails at the timeout
Progress(p) ==
    \/ CommitPExpireAt(p)
    \/ \E applied \in BOOLEAN : CommitExecErr(p, applied)
    \/ AllFind(p)
    \/ AllFindErr(p)

SpecLive == InitLive /\ [][Next]_vars /\ \A p \in Procs : WF_vars(Progress(p))

----------------------------------------------------------------------------
(* The claims.  ret describes the call that returned in the last step, so a  *)
(* state predicate on ret, db, now and last speaks of the state the call     *)
(* returned in.                                                              *)

\* the backend key of the call that returned
RetKey == Key(prefix[ret.p], ret.token)

\* the call that returned was answered by the backend
Answered == ret.err # BackendErr

\* Find returned, answered by the backend, and the last call completed on its
\* key was `op`, with no write to the key since
FindAfter(op) ==
    /\ ret.op = "Find"
    /\ Answered
    /\ RetKey \in DOMAIN last
    /\ last[RetKey].op = op

FindReturned(b, exists, err) == ret.b = b /\ ret.exists = exists /\ ret.err = err

\* C1: Commit applies the value write and the expiry-set as one atomic step:
\* whenever a reader's Find returns the data of a Commit of another caller
\* whose key nobody else wrote since its Set, the key carries that Commit's
\* expiry.
C1_CommitIsAtomic ==
    \A q \in Procs :
        ( /\ ret.op = "Find"
          /\ ret.exists
          /\ ret.p # q
          /\ pc[q] = "pexpireat"
          /\ quiet[q]
          /\ SetKey(prefix[q], arg[q].token) = RetKey
          /\ ret.b = arg[q].b )
        => db[RetKey].exp = makeMillisecondTimestamp(arg[q].expiry)

\* C2, as claimed: after Commit(T, P, e) returned no error, a Find(T) issued
\* before e with no intervening Commit or Delete of T returns (P, true, nil),
\* read from the key prefix+T.
C2_RoundTripBeforeExpiry ==
    (FindAfter("Commit") /\ now < last[RetKey].expiry)
    => /\ FindReturned(last[RetKey].b, TRUE, NoErr)
       /\ RetKey \in DOMAIN db
       /\ db[RetKey].val = last[RetKey].b

\* C2, amended: the same for a Find issued while the backend's millisecond
\* clock is below the millisecond of e.
C2_RoundTrip ==
    (FindAfter("Commit") /\ MsClock(now) < MsClock(last[RetKey].expiry))
    => /\ FindReturned(last[RetKey].b, TRUE, NoErr)
       /\ RetKey \in DOMAIN db
       /\ db[RetKey].val = last[RetKey].b

C2_Witness ==
    /\ FindAfter("Commit")
    /\ MsClock(now) < MsClock(last[RetKey].expiry)
    /\ FindReturned(last[RetKey].b, TRUE, NoErr)
    /\ now > 0

\* C3: a Commit(T, P2, e2) on a token that has a record, undisturbed and
\* returning no error, leaves at prefix+T the value P2 with the expiry e2
\* (in milliseconds) when e2 is ahead of the backend clock and no record
\* otherwise, whatever the value and the expiry (or none) of the record it
\* replaced; a Find then returns P2 or nothing.
C3_Overwrite ==
    (ret.op = "Commit" /\ ret.err = NoErr /\ ret.quiet /\ ret.old.present)
    => LET when == makeMillisecondTimestamp(ret.expiry)
           found == FindResult(RedisGet(db, GetKey(prefix[ret.p], ret.token)))
       IN  /\ RetKey \in DOMAIN db <=> when > MsClock(now)
           /\ RetKey \in DOMAIN db =>
                 db[RetKey].val = ret.b /\ db[RetKey].exp = when
           /\ found.exists => found.b = ret.b

C3_Witness ==
    /\ ret.op = "Commit" /\ ret.err = NoErr /\ ret.quiet
    /\ ret.old.present
    /\ ret.old.val # ret.b
    /\ ret.old.exp # NoExpire
    /\ RetKey \in DOMAIN db
    /\ db[RetKey].val = ret.b
    /\ db[RetKey].exp # ret.old.exp

\* C4, as claimed: after Commit(T, P, e), Find(T) returns (P, true, nil) at
\* every time before e and exists=false with no error at every time after e.
C4_ExpiryAtE ==
    FindAfter("Commit")
    => /\ now < last[RetKey].expiry => FindReturned(last[RetKey].b, TRUE, NoErr)
       /\ now > last[RetKey].expiry => FindReturned(NilBytes, FALSE, NoErr)

\* C4, amended: Find(T) returns (P, true, nil) while the backend's millisecond
\* clock is below the millisecond of e, and exists=false with no error once it
\* is above.
C4_Expiry ==
    FindAfter("Commit")
    => /\ MsClock(now) < MsClock(last[RetKey].expiry)
             => FindReturned(last[RetKey].b, TRUE, NoErr)
       /\ MsClock(now) > MsClock(last[RetKey].expiry)
             => FindReturned(NilBytes, FALSE, NoErr)

C4_Witness ==
    /\ FindAfter("Commit")
    /\ last[RetKey].live
    /\ MsClock(now) > MsClock(last[RetKey].expiry)
    /\ FindReturned(NilBytes, FALSE, NoErr)

\* C5: a record committed with no expiry (the zero time) never expires: Find
\* returns it until the token is deleted or overwritten.
C5_NoExpiryNeverExpires ==
    (FindAfter("Commit") /\ last[RetKey].expiry = ZeroTime)
    => FindReturned(last[RetKey].b, TRUE, NoErr)

\* C6: when the key prefix+token is absent from the backend and the backend
\* answers, Find returns no data, exists=false and no error.
C6_NotFoundIsNoError ==
    (ret.op = "Find" /\ Answered /\ RetKey \notin DOMAIN db)
    => FindReturned(NilBytes, FALSE, NoErr)

C6_Witness ==
    /\ FindAfter("Commit")
    /\ last[RetKey].live
    /\ RetKey \notin DOMAIN db
    /\ FindReturned(NilBytes, FALSE, NoErr)

\* C7: after Delete(T) returned no error the key prefix+T is absent, and it
\* stays absent, every Find(T) returning exists=false with no error, until the
\* key is written again.
C7_Deletion ==
    /\ (ret.op = "Delete" /\ ret.err = NoErr) => RetKey \notin DOMAIN db
    /\ \A k \in DOMAIN last : last[k].op = "Delete" => k \notin DOMAIN db
    /\ FindAfter("Delete") => FindReturned(NilBytes, FALSE, NoErr)

C7_Witness ==
    /\ FindAfter("Delete")
    /\ last[RetKey].live
    /\ FindReturned(NilBytes, FALSE, NoErr)

\* C8: a Delete(T) that finds no record at prefix+T, as does one that follows
\* a Delete(T), leaves the backend as it was and, when the backend answers,
\* returns no error.
C8_DeleteIdempotent ==
    [][ (ret'.op = "Delete" /\ (~ret'.old.present \/ ret'.prev = "Delete"))
        => /\ db' = db
           /\ ret'.err # BackendErr => ret'.err = NoErr ]_vars

C8_Witness ==
    /\ ret.op = "Delete"
    /\ ret.prev = "Delete"
    /\ ~ret.old.present
    /\ ret.err = NoErr
    /\ RetKey \notin DOMAIN db

Nested(a, b) == HasPrefix(a, b) \/ HasPrefix(b, a)

\* the call that returned gave its caller only records written through the
\* caller's store
OwnRecordsOnly == ret.op \in {"Find", "All"} => ret.owners \subseteq {prefix[ret.p]}

\* C9: for any two stores with different prefixes on the same backend, one
\* prefix a leading substring of the other included, no record committed
\* through one is returned by Find or All of the other.
C9_IsolationAnyPrefixes == OwnRecordsOnly

\* The records that cross are those of nested prefixes only: two stores
\* neither of whose prefixes is a leading substring of the other are isolated.
C9_Isolation == ~Nested(prefix[1], prefix[2]) => OwnRecordsOnly

C9_Witness ==
    /\ ~Nested(prefix[1], prefix[2])
    /\ ret.op = "All"
    /\ ret.sessions # EmptyMap
    /\ \E k \in DOMAIN db : db[k].by.store # prefix[ret.p]

\* the tokens of a set of keys of the caller's store
TokensOf(keys) == {TokenOf(prefix[ret.p], k) : k \in keys}

\* C10, as claimed: an All() that runs with no other operation and is answered
\* by the backend returns no error and a mapping whose domain is exactly the
\* set of tokens whose key is present and not expired (when All enumerates, or
\* when it returns).
C10_EnumerationExact ==
    (ret.op = "All" /\ Answered /\ ret.quiet)
    => /\ ret.err = NoErr
       /\ ret.hasmap
       /\ \/ DOMAIN ret.sessions = TokensOf(ret.keys)
          \/ DOMAIN ret.sessions = TokensOf(RedisKeys(db, prefix[ret.p]))

\* C10, amended: such an All() returns no error and a mapping of tokens of the
\* enumerated keys: it holds every token whose key is still there when All
\* returns, with its stored data, is exactly those when the backend clock did
\* not move during the call, and holds no token whose record had expired
\* before the call.
C10_Enumeration ==
    (ret.op = "All" /\ Answered /\ ret.quiet)
    => LET live == RedisKeys(db, prefix[ret.p])
       IN  /\ ret.err = NoErr
           /\ ret.hasmap
           /\ DOMAIN ret.sessions \subseteq TokensOf(ret.keys)
           /\ \A k \in live :
                 /\ TokenOf(prefix[ret.p], k) \in DOMAIN ret.sessions
                 /\ ret.sessions[TokenOf(prefix[ret.p], k)] = db[k].val
           /\ ret.at = MsClock(now) => DOMAIN ret.sessions = TokensOf(live)
           /\ \A k \in DOMAIN last :
                 ( /\ last[k].op = "Commit"
                   /\ HasPrefix(k, prefix[ret.p])
                   /\ MsClock(last[k].expiry) < ret.at )
                 => TokenOf(prefix[ret.p], k) \notin DOMAIN ret.sessions

C10_Witness ==
    /\ ret.op = "All" /\ ret.err = NoErr /\ ret.quiet
    /\ Cardinality(DOMAIN ret.sessions) = 1
    /\ \E k \in DOMAIN last :
          /\ last[k].op = "Commit"
          /\ last[k].live
          /\ MsClock(last[k].expiry) < ret.at
          /\ TokenOf(prefix[ret.p], k) \notin DOMAIN ret.sessions

\* C11: when Keys succeeds and a Find of the range loop fails with a backend
\* error, All returns that error and no mapping, whatever it had fetched so far.
C11_AllOrNothing ==
    (ret.op = "All" /\ ret.failed)
    => /\ ret.err = BackendErr
       /\ ~ret.hasmap
       /\ ret.sessions = EmptyMap

C11_Witness ==
    /\ ret.op = "All" /\ ret.failed
    /\ ret.keys # {}
    /\ ret.got # EmptyMap
    /\ ret.err = BackendErr
    /\ ~ret.hasmap

\* C12: an All whose requests the backend all answers returns no error and a
\* mapping: a key of the Keys reply that is gone (deleted or expired) when its
\* Find is processed is left out, and every other key of the reply is there
\* with the data its Find read.
C12_BenignRace ==
    (ret.op = "All" /\ ~ret.failed)
    => /\ ret.err = NoErr
       /\ ret.hasmap
       /\ \A k \in ret.keys :
             LET token == TokenOf(prefix[ret.p], k)
             IN  IF k \in ret.missed
                 THEN token \notin DOMAIN ret.sessions
                 ELSE /\ token \in DOMAIN ret.sessions
                      /\ ret.sessions[token] = ret.read[k]

C12_Witness ==
    /\ ret.op = "All" /\ ~ret.failed
    /\ ret.missed # {}
    /\ ret.sessions # EmptyMap
    /\ ret.err = NoErr

\* C12, the two ways a key goes: the All that missed a key ran undisturbed (the
\* key expired), or another caller wrote during it (the key was deleted)
C12_WitnessExpired == C12_Witness /\ ret.quiet

C12_WitnessDeleted == C12_Witness /\ ~ret.quiet /\ ret.at = MsClock(now)

\* C13: whenever a Commit(T, P, e) that ran undisturbed returns an error, the
\* key prefix+T holds P with the expiry e (or is gone, e being no later than
\* the backend clock), or is exactly as it was before the call: it never
\* holds P without the expiry e.
C13_NoPartialCommit ==
    (ret.op = "Commit" /\ ret.err # NoErr /\ ret.quiet)
    => LET when == makeMillisecondTimestamp(ret.expiry)
       IN  \/ OldOf(db, RetKey) = ret.old
           \/ /\ RetKey \in DOMAIN db
              /\ db[RetKey].val = ret.b
              /\ db[RetKey].exp = when
           \/ /\ RetKey \notin DOMAIN db
              /\ when <= MsClock(now)

\* C14: when the backend request of a Find, Commit or Delete fails, the call
\* returns that error and is over, with no request left to issue; Find then
\* returns no data and exists = false, not a not-found with a nil error.
C14_FailuresPropagated ==
    (ret.failed /\ ret.op \in {"Find", "Commit", "Delete"})
    => /\ ret.err = BackendErr
       /\ pc[ret.p] = "idle"
       /\ arg[ret.p] = NoArg
       /\ ret.op = "Find" => (ret.b = NilBytes /\ ~ret.exists)

C14_Witness ==
    /\ ret.failed
    /\ ret.op = "Find"
    /\ RetKey \in DOMAIN db
    /\ FindReturned(NilBytes, FALSE, BackendErr)

\* a Commit on `key` is in progress: its Set is processed, its PExpireAt is not
InFlight(key) ==
    \E p \in Procs : pc[p] = "pexpireat" /\ PExpireAtKey(prefix[p], arg[p].token) = key

\* C15: when Commits to the same token run concurrently and return no error,
\* the record they leave has the value and the expiry of the same Commit:
\* once no Commit on the key is in progress, a value written by a Commit
\* carries that Commit's expiry.
C15_LastWriterWins ==
    \A k \in DOMAIN db :
        (db[k].by.commit /\ ~InFlight(k))
        => db[k].exp = makeMillisecondTimestamp(db[k].by.expiry)

\* C16: for every entry (T, D) of the mapping a successful All returns, the
\* key prefix+T is one of the keys Keys replied and D is the value that key
\* held when its follow-up Find was processed, whatever other callers write
\* meanwhile.
C16_WeakConsistency ==
    (ret.op = "All" /\ ret.err = NoErr /\ ret.hasmap)
    => \A T \in DOMAIN ret.sessions :
          LET k == Key(prefix[ret.p], T)
          IN  /\ k \in ret.keys
              /\ k \in DOMAIN ret.read
              /\ ret.read[k] # NilBytes
              /\ ret.sessions[T] = ret.read[k]

\* an All of two keys returns an entry that a concurrent writer has replaced
\* or removed since its Find
C16_Witness ==
    /\ ret.op = "All" /\ ret.err = NoErr /\ ret.hasmap
    /\ ~ret.quiet
    /\ Cardinality(ret.keys) = 2
    /\ \E T \in DOMAIN ret.sessions :
          LET k == Key(prefix[ret.p], T)
          IN  k \notin DOMAIN db \/ db[k].val # ret.sessions[T]

\* the keys other than `key` are in d2 as they are in d1
SameBut(d1, d2, key) ==
    /\ DOMAIN d1 \ {key} = DOMAIN d2 \ {key}
    /\ \A k \in DOMAIN d1 \ {key} : d2[k].val = d1[k].val /\ d2[k].exp = d1[k].exp

\* the step is a request of a Find or an All of caller p
ReadStep(p) ==
    \/ ret'.p = p /\ ret'.op \in {"Find", "All"}
    \/ pc[p] = "idle" /\ pc'[p] = "range"
    \/ pc[p] = "range" /\ (pc'[p] # "range" \/ scan'[p] # scan[p])

\* the step is a request of a Commit or a Delete of caller p on `token`
WriteStep(p, token) ==
    \/ pc[p] = "idle" /\ pc'[p] = "pexpireat" /\ arg'[p].token = token
    \/ pc[p] = "pexpireat" /\ pc'[p] = "idle" /\ arg[p].token = token
    \/ ret'.p = p /\ ret'.op \in {"Commit", "Delete"} /\ ret'.token = token

\* C17: no request of Find or All changes a key, a value or an expiry of the
\* backend, and the requests of Commit(T, ...) and Delete(T) change the key
\* prefix+T only.
C17_Frame ==
    [][ \A p \in Procs :
          /\ ReadStep(p) => db' = db
          /\ \A token \in use.tokens :
                WriteStep(p, token) => SameBut(db, db', Key(prefix[p], token)) ]_vars

\* a Commit through one store replaced a record beside a record of the other
\* store
C17_Witness ==
    /\ ret.op = "Commit" /\ ret.err = NoErr
    /\ ret.old.present
    /\ RetKey \in DOMAIN db
    /\ db[RetKey].val # ret.old.val \/ db[RetKey].exp # ret.old.exp
    /\ \E k \in DOMAIN db : k # RetKey /\ db[k].by.store # prefix[ret.p]

\* C18: after a Commit(T, P, e) with e at or before the current time returns
\* no error, the record is gone, also when T held a live record before: the
\* key is absent, a Find(T) returns exists = false with no error and an All
\* omits T, until T is written again.
C18_PastExpiry ==
    /\ (ret.op = "Commit" /\ ret.err = NoErr /\ ret.quiet /\ ret.expiry <= now)
       => RetKey \notin DOMAIN db
    /\ (FindAfter("Commit") /\ last[RetKey].past)
       => FindReturned(NilBytes, FALSE, NoErr)
    /\ (ret.op = "All" /\ ret.err = NoErr)
       => \A k \in DOMAIN last :
             (last[k].op = "Commit" /\ last[k].past /\ HasPrefix(k, prefix[ret.p]))
             => TokenOf(prefix[ret.p], k) \notin DOMAIN ret.sessions

\* a Commit with a past expiry (not the zero time) removed a live record
C18_Witness ==
    /\ ret.op = "Commit" /\ ret.err = NoErr /\ ret.quiet
    /\ ret.expiry # ZeroTime
    /\ ret.expiry <= now
    /\ ret.old.present
    /\ ret.old.val # ret.b
    /\ RetKey \notin DOMAIN db

\* a Find and an All after such a Commit
C18_WitnessFind ==
    FindAfter("Commit") /\ last[RetKey].past /\ last[RetKey].expiry # ZeroTime

C18_WitnessAll ==
    /\ ret.op = "All" /\ ret.err = NoErr /\ ret.sessions # EmptyMap
    /\ \E k \in DOMAIN last : last[k].op = "Commit" /\ last[k].past

\* C19: every call returns, a result or an error, also when requests are not
\* answered (they fail at their timeout): a caller inside a Commit or an All
\* gets back to idle, and every pass of All's range loop that does not return
\* takes one key off the keys still to visit, so All issues at most one Find
\* for each key Keys replied.
C19_Termination ==
    /\ \A p \in Procs : (pc[p] # "idle") ~> (pc[p] = "idle")
    /\ [][ \A p \in Procs :
             (pc[p] = "range" /\ pc'[p] = "range")
             => \/ scan'[p] = scan[p]
                \/ /\ scan'[p].rest \subseteq scan[p].rest
                   /\ Cardinality(scan'[p].rest) = Cardinality(scan[p].rest) - 1 ]_vars

\* an All over two keys returned after one Find for each of them
C19_Witness ==
    /\ ret.op = "All" /\ ret.err = NoErr
    /\ Cardinality(ret.keys) = 2
    /\ DOMAIN ret.read = ret.keys

\* an All returned on a request that was not answered
C19_WitnessTimeout ==
    /\ ret.op = "All" /\ ret.failed /\ ret.err = BackendErr
    /\ Cardinality(ret.keys) = 2

====
